---------------------------- MODULE Spec2Model ----------------------------
(***************************************************************************)
(* ScoutLog: the drawing session, the entry store and the route animation  *)
(* controller of src/js/models/Log.js (class App), with the entry classes  *)
(* Log, Route and Spot.                                                     *)
(*                                                                         *)
(* Units.  Coordinates are <<lat, lng>> in whole micro-degrees.  Distances *)
(* are whole millimetres (the source works in kilometres as floats).       *)
(* Angles are whole nano-radians.  Times are whole milliseconds.           *)
(* TLC's integers are 32 bits wide, so the modelled coordinates stay in a  *)
(* window of a few thousand micro-degrees around the origin.               *)
(***************************************************************************)
EXTENDS Integers, Sequences, FiniteSets, TLC

(***************************************************************************)
(* Bounds of the model.                                                    *)
(***************************************************************************)
MaxPoints == 2
MaxLogs == 1
MaxIdLogs == 2
MaxStored == 3
MaxMs == 1
MaxEra == 1
MaxFrameId == 4
MaxTime == 1000
FrameStep == 250
MaxOrphans == 1
MaxDrawPoints == 4

(***************************************************************************)
(* Program constants.                                                      *)
(***************************************************************************)
EarthRadiusKm == 6371
LoopCloseMm == 50000
MsPerKm == 200
MinDurationMs == 500
MaxDurationMs == 2000
StripeMs == 50
StripeCycle == 16

\* null, where a polyline, and where an entry id, is expected.
NoPolyline == <<>>
NoId == -1

(***************************************************************************)
(* The coordinates a click can carry: the start P0, a point PFar 111 m     *)
(* east of it, and a point PNear about 3 m from P0 (the spec's example     *)
(* (0,0), (0,0.001), (0.00002,0.00002)).                                    *)
(***************************************************************************)
P0 == <<0, 0>>
PFar == <<0, 1000>>
PNear == <<20, 20>>
Coords == {P0, PFar, PNear}

(***************************************************************************)
(* GeoMath.                                                                *)
(***************************************************************************)
Abs(x) == IF x < 0 THEN -x ELSE x

RECURSIVE SqrtSearch(_, _, _)
SqrtSearch(n, lo, hi) ==
    IF lo >= hi THEN lo
    ELSE LET mid == (lo + hi + 1) \div 2
         IN  IF mid * mid <= n THEN SqrtSearch(n, mid, hi)
                               ELSE SqrtSearch(n, lo, mid - 1)

\* Math.sqrt on a non-negative integer, rounded down.
Sqrt(n) == SqrtSearch(n, 0, 46340)

\* x * Math.PI / 180 : micro-degrees to nano-radians (pi/180 = 0.017453...),
\* rounded toward zero so that the sign of x does not change the magnitude.
ToRad(x) == IF x < 0 THEN -((Abs(x) * 17453) \div 1000) ELSE (x * 17453) \div 1000

\* Math.sin(x / 2) ** 2 for x in nano-radians, in units of 1e-18.  On the
\* modelled window |x| < 46340 nrad, where sin(x/2) = x/2 to 1e-14.
SinHalfSq(x) == (x * x) \div 4

\* Math.cos(x) for x in nano-radians, in thousandths: 1 - x^2/2 with x taken
\* in milli-radians.
Cos(x) == 1000 - (((x \div 1000000) * (x \div 1000000)) \div 2000)

\* (c / 1000) * s without leaving 32 bits.
Scale(c, s) == (s \div 1000) * c + ((s % 1000) * c) \div 1000

\* The haversine intermediate a, in units of 1e-18.
haversineA(coord1, coord2) ==
    LET dLat == ToRad(coord2[1] - coord1[1])
        dLon == ToRad(coord2[2] - coord1[2])
    IN  SinHalfSq(dLat)
          + Scale((Cos(ToRad(coord1[1])) * Cos(ToRad(coord2[1]))) \div 1000,
                  SinHalfSq(dLon))

\* Math.atan2(Math.sqrt(a), Math.sqrt(1 - a)) in nano-radians.  For a below
\* 2.2e-9 the second argument is 1 to 1e-9 and atan2(y, 1) = y to 1e-13.
Atan2Sqrt(a) == Sqrt(a)

\* #haversineDistance: R * 2 * atan2(sqrt(a), sqrt(1 - a)), in millimetres
\* (km * nrad = 1e-3 mm).
haversineDistance(coord1, coord2) ==
    (EarthRadiusKm * 2 * Atan2Sqrt(haversineA(coord1, coord2))) \div 1000

\* #calculateTotalDistance: the loop from i = 1, summing consecutive pairs.
RECURSIVE TotalFrom(_, _)
TotalFrom(points, i) ==
    IF i > Len(points) THEN 0
    ELSE haversineDistance(points[i - 1], points[i]) + TotalFrom(points, i + 1)

calculateTotalDistance(points) == TotalFrom(points, 2)


(***************************************************************************)
(* GeoMath at the edge of the domain.  Here coordinates are <<lat, lng>>   *)
(* in whole degrees, on a grid of three latitudes and four longitudes, the *)
(* haversine intermediate a is counted in units of 1/AUnit, and distances  *)
(* are whole metres.  The floating-point sum that makes a is exact when    *)
(* both of its terms are 0 and is otherwise rounded: how, is up to the     *)
(* build's Math.sin and Math.cos.                                          *)
(***************************************************************************)
AUnit == 10000
\* The result of Math.sqrt of a negative number, and of what is computed
\* from it.
NaN == -1

EdgeLats == {-8, 0, 8}
EdgeLngs == {-90, 0, 90, 180}
EdgeCoords == EdgeLats \X EdgeLngs

\* Math.cos of a latitude of the grid, in units of 1/AUnit.
CosEdge(deg) == IF deg = 0 THEN 10000 ELSE 9903

\* Math.sin(x / 2) ** 2 of a difference of the grid, in units of 1/AUnit.
SinHalfSqEdge(deg) ==
    LET x == Abs(deg)
    IN  CASE x = 0 -> 0
          [] x = 8 -> 49
          [] x = 16 -> 194
          [] x = 90 \/ x = 270 -> 5000
          [] x = 180 -> 10000

\* The exact value of a.
ExactA(coord1, coord2) ==
    SinHalfSqEdge(coord2[1] - coord1[1])
        + (((CosEdge(coord1[1]) * CosEdge(coord2[1])) \div AUnit)
              * SinHalfSqEdge(coord2[2] - coord1[2])) \div AUnit

\* What the rounding can add to a, in its last unit.
RoundingErrors(coord1, coord2) ==
    IF ExactA(coord1, coord2) = 0 THEN {0} ELSE {-1, 0, 1}

\* What it adds where sin and cos are rounded correctly to IEEE-754
\* doubles: for antipodal points of latitude 8 and -8 the sum is
\* 1.0000000000000002.
IeeeRounding(coord1, coord2) ==
    IF ExactA(coord1, coord2) = AUnit /\ coord1[1] # 0 THEN 1 ELSE 0

\* a as the floating-point expression yields it under rounding error err.
haversineAEdge(coord1, coord2, err) == ExactA(coord1, coord2) + err

\* Math.atan2(Math.sqrt(a), Math.sqrt(1 - a)) in milli-radians, for the
\* values a takes on the grid (exact is a without its rounding error).
HalfAngleMrad(exact) ==
    CASE exact = 0 -> 0
      [] exact = 49 -> 70
      [] exact = 194 -> 140
      [] exact = 4903 -> 776
      [] exact = 5000 -> 785
      [] exact = 5097 -> 795
      [] exact = 9806 -> 1431
      [] exact = 9952 -> 1501
      [] exact = 10000 -> 1571

\* #haversineDistance on these coordinates: R * 2 * atan2(sqrt(a),
\* sqrt(1 - a)) in metres.  The source passes a on as it is: above 1,
\* Math.sqrt(1 - a) is NaN and so are atan2 and the product.
haversineDistanceEdge(coord1, coord2, err) ==
    IF AUnit - haversineAEdge(coord1, coord2, err) < 0 THEN NaN
    ELSE EarthRadiusKm * 2 * HalfAngleMrad(ExactA(coord1, coord2))


(***************************************************************************)
(* State of App.  Session: #mode, #isDrawing, #routePoints,                *)
(* #currentPolyline (the latlngs it shows), #vertexMarkers,                 *)
(* #currentDistance, and the entry form (#form.open, and which variant the *)
(* form shows: #distanceField.style.display).  Store: #logs, the cards of  *)
(* the list, #drawnLayers, the base layers left on the map that            *)
(* #drawnLayers no longer holds,                                           *)
(* the persisted value and the millisecond clock read by new Log().        *)
(* Animation: #activeAnimations, #animationLayers, #selectedRouteId,       *)
(* #pendingDeleteId, the delete dialog, the frame scheduler's pending      *)
(* callbacks, its id counter and the time of the last frame.               *)
(* ev names the handler that ran last, with its argument, and fx lists, in *)
(* order, the calls it made on the store, the selection and the map.       *)
(***************************************************************************)
VARIABLES mode, isDrawing, routePoints, currentPolyline, vertexMarkers,
          currentDistance, formOpen, distanceDisplay,
          logs, cards, drawnLayers, orphanLayers, localStorage, clock,
          activeAnimations, animationLayers, selectedRouteId,
          pendingDeleteId, deleteDialogOpen, frames, nextFrameId, now,
          ev, fx

sessVars == <<mode, isDrawing, routePoints, currentPolyline, vertexMarkers,
              currentDistance, formOpen, distanceDisplay>>
storeVars == <<logs, cards, drawnLayers, orphanLayers, localStorage>>
animVars == <<activeAnimations, animationLayers, selectedRouteId, frames,
              nextFrameId>>
dialogVars == <<pendingDeleteId, deleteDialogOpen>>
vars == <<sessVars, storeVars, clock, animVars, dialogVars, now, ev, fx>>

(***************************************************************************)
(* The drawing session as a record, and the private methods of App that    *)
(* work on it as operators from record to record.                          *)
(***************************************************************************)
Sess ==
    [mode |-> mode, isDrawing |-> isDrawing, routePoints |-> routePoints,
     currentPolyline |-> currentPolyline, vertexMarkers |-> vertexMarkers,
     currentDistance |-> currentDistance, formOpen |-> formOpen,
     distanceDisplay |-> distanceDisplay]

SetSess(s) ==
    /\ mode' = s.mode
    /\ isDrawing' = s.isDrawing
    /\ routePoints' = s.routePoints
    /\ currentPolyline' = s.currentPolyline
    /\ vertexMarkers' = s.vertexMarkers
    /\ currentDistance' = s.currentDistance
    /\ formOpen' = s.formOpen
    /\ distanceDisplay' = s.distanceDisplay

\* #clearDrawingState
clearDrawingState(s) ==
    [s EXCEPT !.currentPolyline = NoPolyline, !.vertexMarkers = <<>>,
              !.routePoints = <<>>, !.currentDistance = 0]

\* A variant of #setMode whose toggle-off keeps the points and the distance.
setModeKeepsPoints(s, m) ==
    IF s.mode = m
    THEN [s EXCEPT !.mode = "none", !.isDrawing = FALSE]
    ELSE [s EXCEPT !.mode = m, !.isDrawing = TRUE]

\* #setMode
setMode(s, m) ==
    IF s.mode = m
    THEN clearDrawingState([s EXCEPT !.mode = "none", !.isDrawing = FALSE])
    ELSE [s EXCEPT !.mode = m, !.isDrawing = TRUE]

\* A variant of #openForm that shows the route fields for a spot as well.
openFormAlwaysRoute(s, type) ==
    [s EXCEPT !.distanceDisplay = "block", !.formOpen = TRUE]

\* #openForm: #distanceField.style.display is set for the type and the form
\* opens.
openForm(s, type) ==
    [s EXCEPT !.distanceDisplay = IF type = "route" THEN "block" ELSE "none",
              !.formOpen = TRUE]

\* A variant of #closeForm that closes the dialog and keeps the drawing.
closeFormKeepsDrawing(s) == [s EXCEPT !.formOpen = FALSE]

\* #closeForm
closeForm(s) == clearDrawingState([s EXCEPT !.formOpen = FALSE])

\* #finishRoute
finishRoute(s) ==
    IF Len(s.routePoints) < 2 THEN s
    ELSE openForm([s EXCEPT !.isDrawing = FALSE, !.mode = "none"], "route")

\* A variant of #closeLoop that does not add the closing segment to the
\* distance.
closeLoopStaleDistance(s) ==
    LET pushed == [s EXCEPT !.routePoints = Append(@, s.routePoints[1])]
    IN  IF s.currentPolyline = NoPolyline THEN pushed
        ELSE finishRoute([pushed EXCEPT !.currentPolyline = pushed.routePoints])

\* #closeLoop.  setLatLngs on a missing polyline throws, which ends the
\* handler after the push.
closeLoop(s) ==
    LET pushed == [s EXCEPT !.routePoints = Append(@, s.routePoints[1])]
    IN  IF s.currentPolyline = NoPolyline THEN pushed
        ELSE finishRoute(
                [pushed EXCEPT
                    !.currentPolyline = pushed.routePoints,
                    !.currentDistance =
                        calculateTotalDistance(pushed.routePoints)])

\* A variant of #addRoutePoint that drops a point equal to the last one.
addRoutePointDeduplicating(s, point) ==
    LET n == Len(s.routePoints)
        pushed == [s EXCEPT !.routePoints = Append(@, point),
                            !.vertexMarkers = Append(@, point)]
    IN  IF n >= 1 /\ s.routePoints[n] = point
        THEN s
        ELSE IF n + 1 >= 2
             THEN [pushed EXCEPT
                      !.currentPolyline = pushed.routePoints,
                      !.currentDistance =
                          calculateTotalDistance(pushed.routePoints)]
             ELSE pushed

\* A variant of #addRoutePoint that takes the new segment alone for the
\* distance.
addRoutePointLastSegment(s, point) ==
    LET pushed == [s EXCEPT !.routePoints = Append(@, point),
                            !.vertexMarkers = Append(@, point)]
        n == Len(pushed.routePoints)
    IN  IF n >= 2
        THEN [pushed EXCEPT
                 !.currentPolyline = pushed.routePoints,
                 !.currentDistance =
                     haversineDistance(pushed.routePoints[n - 1],
                                       pushed.routePoints[n])]
        ELSE pushed

\* #addRoutePoint
addRoutePoint(s, point) ==
    LET pushed == [s EXCEPT !.routePoints = Append(@, point),
                            !.vertexMarkers = Append(@, point)]
    IN  IF Len(pushed.routePoints) >= 2
        THEN [pushed EXCEPT
                 !.currentPolyline = pushed.routePoints,
                 !.currentDistance =
                     calculateTotalDistance(pushed.routePoints)]
        ELSE pushed

\* #addSpot
addSpot(s, point) ==
    openForm([s EXCEPT !.mode = "none", !.isDrawing = FALSE,
                       !.routePoints = <<point>>], "spot")

\* A variant of #cancelDrawing that leaves the drawing state uncleared.
cancelDrawingKeepsPoints(s) ==
    [s EXCEPT !.mode = "none", !.isDrawing = FALSE]

\* #cancelDrawing
cancelDrawing(s) ==
    [clearDrawingState(s) EXCEPT !.mode = "none", !.isDrawing = FALSE]

\* #handleMapClick
handleMapClick(s, point) ==
    IF ~s.isDrawing THEN s
    ELSE IF s.mode = "route"
    THEN IF /\ Len(s.routePoints) >= 2
            /\ haversineDistance(point, s.routePoints[1]) < LoopCloseMm
         THEN closeLoop(s)
         ELSE addRoutePoint(s, point)
    ELSE IF s.mode = "spot" THEN addSpot(s, point)
    ELSE s

\* A variant of #handleDoubleClick that finishes a route of any length.
handleDoubleClickAnyLength(s) ==
    IF s.mode = "route"
    THEN openForm([s EXCEPT !.isDrawing = FALSE, !.mode = "none"], "route")
    ELSE s

\* #handleDoubleClick
handleDoubleClick(s) ==
    IF s.mode = "route" /\ Len(s.routePoints) >= 2 THEN finishRoute(s) ELSE s

\* #handleKeydown, by key
handleKeydown(s, key) ==
    LET afterEnter ==
            IF key = "Enter" /\ s.mode = "route" /\ Len(s.routePoints) >= 2
            THEN finishRoute(s) ELSE s
    IN  IF key = "Escape"
        THEN IF afterEnter.formOpen THEN closeForm(afterEnter)
             ELSE IF afterEnter.isDrawing THEN cancelDrawing(afterEnter)
             ELSE afterEnter
        ELSE afterEnter


(***************************************************************************)
(* Entries.  A clock reading is <<era, ms>>, standing for the millisecond  *)
(* count era * 10^10 + ms with ms below 10^10.                             *)
(***************************************************************************)
ClockReadings == (0 .. MaxEra) \X (0 .. MaxMs)

NotBefore(t, u) == t[1] > u[1] \/ (t[1] = u[1] /\ t[2] >= u[2])

\* (Date.now() + '').slice(-10): the last ten decimal digits of the reading.
Last10(t) == t[2]

\* Route.#calcPace, in whole minutes per kilometre (distance in mm).
calcPace(distance, duration) ==
    IF distance = 0 \/ duration = 0 THEN 0
    ELSE (duration * 1000000) \div distance

\* new Route(coordsArray, distance, title, duration, notes) at reading t
Route(coordsArray, distance, title, duration, notes, t) ==
    [type |-> "route", id |-> Last10(t), date |-> t, coords |-> coordsArray,
     title |-> title, distance |-> distance, duration |-> duration,
     pace |-> calcPace(distance, duration), notes |-> notes]

\* new Spot(coords, title, description) at reading t
Spot(coords, title, description, t) ==
    [type |-> "spot", id |-> Last10(t), date |-> t, coords |-> coords,
     title |-> title, description |-> description]

\* Date.prototype.toISOString, and new Date(isoString): both to the
\* millisecond.
toISOString(date) == <<"iso", date[1], date[2]>>
parseDate(iso) == <<iso[2], iso[3]>>

\* Route.toJSON / Spot.toJSON over Log.toJSON
toJSON(log) ==
    IF log.type = "route"
    THEN [id |-> log.id, date |-> toISOString(log.date), coords |-> log.coords,
          type |-> log.type, title |-> log.title, distance |-> log.distance,
          duration |-> log.duration, notes |-> log.notes]
    ELSE [id |-> log.id, date |-> toISOString(log.date), coords |-> log.coords,
          type |-> log.type, title |-> log.title,
          description |-> log.description]

\* A Map: a function on the keys it holds.
EmptyMap == <<>>
Has(m, k) == k \in DOMAIN m
Put(m, k, v) == [x \in (DOMAIN m) \cup {k} |-> IF x = k THEN v ELSE m[x]]
Del(m, k) == [x \in (DOMAIN m) \ {k} |-> m[x]]

\* Array.prototype.find by id: the index of the first entry with the id, or 0.
FindIndex(ls, id) ==
    IF \E i \in 1 .. Len(ls) : ls[i].id = id
    THEN CHOOSE i \in 1 .. Len(ls) :
            /\ ls[i].id = id
            /\ \A j \in 1 .. (i - 1) : ls[j].id # id
    ELSE 0

\* The base layer #renderLogOnMap creates: a polyline in the default style
\* for a route, a marker (which has no setStyle) for a spot.
BaseLayer(log) ==
    [kind |-> IF log.type = "route" THEN "polyline" ELSE "marker",
     style |-> "default"]

\* A variant of #saveToLocalStorage that writes the last entry only.
SerializedLastOnly(ls) ==
    [kind |-> "array",
     items |-> IF ls = <<>> THEN <<>> ELSE <<toJSON(ls[Len(ls)])>>]

\* #saveToLocalStorage: the value written under 'scoutlog-logs'.
Serialized(ls) == [kind |-> "array", items |-> [i \in 1 .. Len(ls) |-> toJSON(ls[i])]]
NoData == [kind |-> "absent", items |-> <<>>]

(***************************************************************************)
(* What the user can type into the form.                                   *)
(***************************************************************************)
TitleInputs == {"", " Loop "}
DurationInputs == {"", "15"}
NotesInputs == {""}
\* The duration field also takes a zero and a negative number.
SignedDurationInputs == DurationInputs \cup {"0", "-5"}

\* String.prototype.trim on the inputs above.
trim(str) == IF str = " Loop " THEN "Loop" ELSE str
\* parseInt(value) || 0 on the inputs above.
parseIntOr0(str) ==
    IF str = "15" THEN 15 ELSE IF str = "-5" THEN -5 ELSE 0


(***************************************************************************)
(* The animation controller as a record, and the private methods of App    *)
(* that work on it as operators from record to record.  A pending frame    *)
(* callback is the closure of one #animateRoute call: the entry id, the    *)
(* overlay it draws on (named by the number of the call's first frame),    *)
(* startTime (0 while unset: the source tests !startTime), phase, the      *)
(* number of coordinates and the duration.  Each operator appends to fx    *)
(* the calls it makes, in order.                                           *)
(***************************************************************************)
Anim ==
    [activeAnimations |-> activeAnimations,
     animationLayers |-> animationLayers, drawnLayers |-> drawnLayers,
     selectedRouteId |-> selectedRouteId, frames |-> frames,
     nextFrameId |-> nextFrameId, fx |-> <<>>]

SetAnim(a) ==
    /\ activeAnimations' = a.activeAnimations
    /\ animationLayers' = a.animationLayers
    /\ drawnLayers' = a.drawnLayers
    /\ selectedRouteId' = a.selectedRouteId
    /\ frames' = a.frames
    /\ nextFrameId' = a.nextFrameId
    /\ fx' = a.fx

Emit(a, call) == [a EXCEPT !.fx = Append(@, call)]

\* cancelAnimationFrame(frameId)
cancelAnimationFrame(a, frameId) ==
    Emit([a EXCEPT !.frames = {f \in @ : f.frameId # frameId}],
         <<"cancelAnimationFrame", frameId>>)

\* requestAnimationFrame(animate) followed by
\* this.#activeAnimations.set(logId, frameId)
requestAnimationFrame(a, closure) ==
    Emit([a EXCEPT
            !.frames = @ \cup {[closure EXCEPT !.frameId = a.nextFrameId]},
            !.nextFrameId = @ + 1,
            !.activeAnimations = Put(@, closure.logId, a.nextFrameId)],
         <<"requestAnimationFrame", closure.logId>>)

\* layer.setStyle({ color: '#9ca3af', weight: 3, opacity: 0.6 }) guarded by
\* layer && layer.setStyle
resetStyle(a, logId) ==
    IF Has(a.drawnLayers, logId) /\ a.drawnLayers[logId].kind = "polyline"
    THEN Emit([a EXCEPT !.drawnLayers[logId].style = "default"],
              <<"setStyle", logId, "default">>)
    ELSE a

\* A variant of #stopRouteAnimation that forgets the handle and removes
\* the overlay but leaves the callback registered.
stopRouteAnimationNoCancel(a, logId) ==
    LET a1 == [a EXCEPT !.activeAnimations = Del(@, logId)]
    IN  IF Has(a1.animationLayers, logId)
        THEN Emit([a1 EXCEPT !.animationLayers = Del(@, logId)],
                  <<"removeLayer", "overlay", logId>>)
        ELSE a1

\* A variant of #stopRouteAnimation that cancels the callback and forgets
\* the handle but leaves the overlay on the map and in its table.
stopRouteAnimationKeepsOverlay(a, logId) ==
    IF Has(a.activeAnimations, logId)
    THEN [cancelAnimationFrame(a, a.activeAnimations[logId])
            EXCEPT !.activeAnimations = Del(@, logId)]
    ELSE a

\* #stopRouteAnimation
stopRouteAnimation(a, logId) ==
    LET a1 == IF Has(a.activeAnimations, logId)
              THEN [cancelAnimationFrame(a, a.activeAnimations[logId])
                      EXCEPT !.activeAnimations = Del(@, logId)]
              ELSE a
    IN  IF Has(a1.animationLayers, logId)
        THEN Emit([a1 EXCEPT !.animationLayers = Del(@, logId)],
                  <<"removeLayer", "overlay", logId>>)
        ELSE a1

\* #deselectRoute
deselectRoute(a) ==
    IF a.selectedRouteId = NoId THEN a
    ELSE LET logId == a.selectedRouteId
             a1 == Emit([a EXCEPT !.selectedRouteId = NoId],
                        <<"selectedRouteId", NoId>>)
         IN  resetStyle(stopRouteAnimation(a1, logId), logId)

\* A coordinate outside the window around the origin is taken on the grid
\* of GeoMath at the edge: whole degrees, in micro-degrees.
MicroPerDegree == 1000000
Far(coord) == Abs(coord[1]) >= MicroPerDegree \/ Abs(coord[2]) >= MicroPerDegree
Degrees(coord) == <<coord[1] \div MicroPerDegree, coord[2] \div MicroPerDegree>>

\* #calculateTotalDistance yields NaN: one of its terms is NaN.
LengthIsNaN(coords) ==
    \E i \in 2 .. Len(coords) :
        /\ Far(coords[i - 1]) \/ Far(coords[i])
        /\ haversineDistanceEdge(
                Degrees(coords[i - 1]), Degrees(coords[i]),
                IeeeRounding(Degrees(coords[i - 1]), Degrees(coords[i]))) = NaN

\* Math.min(Math.max(totalDistance * 200, 500), 2000), in ms (distance in
\* mm).  Math.max and Math.min of NaN are NaN.
animationDuration(coords) ==
    LET byLength == (calculateTotalDistance(coords) * MsPerKm) \div 1000000
        atLeast == IF byLength > MinDurationMs THEN byLength ELSE MinDurationMs
    IN  IF LengthIsNaN(coords) THEN NaN
        ELSE IF atLeast < MaxDurationMs THEN atLeast ELSE MaxDurationMs

\* A variant of #animateRoute that does not stop the running animation first.
animateRouteNoStop(a, logId, coords) ==
    IF ~Has(a.drawnLayers, logId) THEN a
    ELSE IF a.drawnLayers[logId].kind # "polyline" THEN a
    ELSE LET a2 == Emit([a EXCEPT !.drawnLayers[logId].style = "animating"],
                        <<"setStyle", logId, "animating">>)
             a3 == Emit([a2 EXCEPT !.animationLayers =
                            Put(@, logId,
                                [anim |-> a2.nextFrameId, shown |-> 0,
                                 dashed |-> FALSE, dashOffset |-> 0])],
                        <<"addLayer", "overlay", logId>>)
         IN  requestAnimationFrame(a3,
                [frameId |-> 0, logId |-> logId, anim |-> a2.nextFrameId,
                 startTime |-> 0, phase |-> "progress",
                 n |-> Len(coords), duration |-> animationDuration(coords)])

\* #animateRoute, up to and including the first requestAnimationFrame.
\* baseLayer.setStyle on a marker throws, which ends the handler there.
animateRoute(a, logId, coords) ==
    LET a1 == stopRouteAnimation(a, logId)
    IN  IF ~Has(a1.drawnLayers, logId) THEN a1
        ELSE IF a1.drawnLayers[logId].kind # "polyline" THEN a1
        ELSE LET a2 == Emit([a1 EXCEPT !.drawnLayers[logId].style = "animating"],
                            <<"setStyle", logId, "animating">>)
                 a3 == Emit([a2 EXCEPT !.animationLayers =
                                Put(@, logId,
                                    [anim |-> a2.nextFrameId, shown |-> 0,
                                     dashed |-> FALSE, dashOffset |-> 0])],
                            <<"addLayer", "overlay", logId>>)
             IN  requestAnimationFrame(a3,
                    [frameId |-> 0, logId |-> logId, anim |-> a2.nextFrameId,
                     startTime |-> 0, phase |-> "progress",
                     n |-> Len(coords), duration |-> animationDuration(coords)])

\* A call on the closure's animLayer: it lands on the overlay shown on the
\* map when that is still the closure's, and on a removed layer otherwise.
OnOverlay(a, f, shown, dashed, dashOffset) ==
    IF Has(a.animationLayers, f.logId) /\ a.animationLayers[f.logId].anim = f.anim
    THEN Emit([a EXCEPT !.animationLayers[f.logId] =
                  [anim |-> f.anim, shown |-> shown, dashed |-> dashed,
                   dashOffset |-> dashOffset]],
              <<"draw", f.logId>>)
    ELSE Emit(a, <<"drawRemoved", f.logId>>)

\* The current look of the closure's overlay (a fresh polyline if removed).
Look(a, f) ==
    IF Has(a.animationLayers, f.logId) /\ a.animationLayers[f.logId].anim = f.anim
    THEN a.animationLayers[f.logId]
    ELSE [anim |-> f.anim, shown |-> 0, dashed |-> FALSE, dashOffset |-> 0]

\* A variant of the animate callback that switches to the stripes as soon
\* as any time has elapsed.
animateEarlyStripes(a, f, timestamp) ==
    LET a0 == [a EXCEPT !.frames = @ \ {f}]
        startTime == IF f.startTime = 0 THEN timestamp ELSE f.startTime
        elapsed == timestamp - startTime
        capped == IF elapsed < f.duration THEN elapsed ELSE f.duration
        pointsToShow == (capped * f.n + f.duration - 1) \div f.duration
        done == elapsed > 0
        drawn ==
            IF f.phase = "progress"
            THEN OnOverlay(a0, f, pointsToShow, done, 0)
            ELSE OnOverlay(a0, f, Look(a0, f).shown, Look(a0, f).dashed,
                           -(elapsed % (StripeMs * StripeCycle)))
        next ==
            IF f.phase = "progress" /\ done
            THEN [f EXCEPT !.phase = "stripes", !.startTime = timestamp]
            ELSE [f EXCEPT !.startTime = startTime]
    IN  requestAnimationFrame(drawn, next)

\* The animate callback of #animateRoute, run for pending callback f with
\* the frame's timestamp.  With a duration of NaN progress is NaN:
\* coords.slice(0, NaN) is empty and progress >= 1 is false.
animate(a, f, timestamp) ==
    LET a0 == [a EXCEPT !.frames = @ \ {f}]
        startTime == IF f.startTime = 0 THEN timestamp ELSE f.startTime
        elapsed == timestamp - startTime
        capped == IF elapsed < f.duration THEN elapsed ELSE f.duration
        pointsToShow == IF f.duration = NaN THEN 0
                        ELSE (capped * f.n + f.duration - 1) \div f.duration
        done == f.duration # NaN /\ elapsed >= f.duration
        drawn ==
            IF f.phase = "progress"
            THEN OnOverlay(a0, f, pointsToShow, done, 0)
            ELSE OnOverlay(a0, f, Look(a0, f).shown, Look(a0, f).dashed,
                           -(elapsed % (StripeMs * StripeCycle)))
        next ==
            IF f.phase = "progress" /\ done
            THEN [f EXCEPT !.phase = "stripes", !.startTime = timestamp]
            ELSE [f EXCEPT !.startTime = startTime]
    IN  requestAnimationFrame(drawn, next)

\* One visual frame: every callback pending at its start runs, in the
\* order of registration, with the frame's timestamp.
RECURSIVE RunFrame(_, _, _)
RunFrame(a, pending, timestamp) ==
    IF pending = {} THEN a
    ELSE LET f == CHOOSE g \in pending : \A h \in pending : g.frameId <= h.frameId
         IN  RunFrame(IF f \in a.frames THEN animate(a, f, timestamp) ELSE a,
                      pending \ {f}, timestamp)


\* A variant of #handleLogClick that leaves a clicked spot selected.
handleLogClickSelectsSpot(a, ls, id) ==
    LET i == FindIndex(ls, id)
        prev == a.selectedRouteId
        a1 == IF prev # NoId /\ prev # id
              THEN resetStyle(stopRouteAnimation(a, prev), prev)
              ELSE a
    IN  IF i = 0 THEN a
        ELSE IF ls[i].type = "route"
        THEN animateRoute(Emit([a1 EXCEPT !.selectedRouteId = id],
                               <<"selectedRouteId", id>>),
                          id, ls[i].coords)
        ELSE Emit([a1 EXCEPT !.selectedRouteId = id],
                  <<"selectedRouteId", id>>)

\* #handleLogClick on a card (not on its delete button)
handleLogClick(a, ls, id) ==
    LET i == FindIndex(ls, id)
        prev == a.selectedRouteId
        a1 == IF prev # NoId /\ prev # id
              THEN resetStyle(stopRouteAnimation(a, prev), prev)
              ELSE a
    IN  IF i = 0 THEN a
        ELSE IF ls[i].type = "route"
        THEN animateRoute(Emit([a1 EXCEPT !.selectedRouteId = id],
                               <<"selectedRouteId", id>>),
                          id, ls[i].coords)
        ELSE Emit([a1 EXCEPT !.selectedRouteId = NoId],
                  <<"selectedRouteId", NoId>>)

\* #handleLogHover
handleLogHover(a, ls, id) ==
    LET i == FindIndex(ls, id)
    IN  IF a.selectedRouteId = id THEN a
        ELSE IF i = 0 THEN a
        ELSE IF ls[i].type # "route" THEN a
        ELSE animateRoute(a, id, ls[i].coords)

\* #handleLogLeave
handleLogLeave(a, id) ==
    IF a.selectedRouteId = id THEN a
    ELSE resetStyle(stopRouteAnimation(a, id), id)

\* A variant of that part of #confirmDelete which removes the base layer
\* before it deselects and stops.
confirmDeleteLayersBaseFirst(a, logId) ==
    LET a1 == IF Has(a.drawnLayers, logId)
              THEN Emit([a EXCEPT !.drawnLayers = Del(@, logId)],
                        <<"removeLayer", "base", logId>>)
              ELSE a
        a2 == IF a1.selectedRouteId = logId THEN deselectRoute(a1) ELSE a1
    IN  stopRouteAnimation(a2, logId)

\* The part of #confirmDelete that works on the animation controller and
\* the map, in the order of the source: deselect, stop, remove the base layer.
confirmDeleteLayers(a, logId) ==
    LET a1 == IF a.selectedRouteId = logId THEN deselectRoute(a) ELSE a
        a2 == stopRouteAnimation(a1, logId)
    IN  IF Has(a2.drawnLayers, logId)
        THEN Emit([a2 EXCEPT !.drawnLayers = Del(@, logId)],
                  <<"removeLayer", "base", logId>>)
        ELSE a2

\* A variant of that filter which also brings each remaining route's
\* distance up to date with its coordinates.
WithoutIdRecalculating(ls, logId) ==
    LET kept == SelectSeq(ls, LAMBDA l : l.id # logId)
    IN  [i \in 1 .. Len(kept) |->
            IF kept[i].type = "route"
            THEN [kept[i] EXCEPT
                     !.distance = calculateTotalDistance(kept[i].coords)]
            ELSE kept[i]]

\* this.#logs.filter((l) => l.id !== logId)
WithoutId(ls, logId) == SelectSeq(ls, LAMBDA l : l.id # logId)

\* document.querySelector(`.log-card[data-id="${logId}"]`) then card.remove():
\* the first card with the id leaves the list.
RECURSIVE RemoveFirst(_, _)
RemoveFirst(cs, id) ==
    IF cs = <<>> THEN <<>>
    ELSE IF Head(cs) = id THEN Tail(cs)
    ELSE <<Head(cs)>> \o RemoveFirst(Tail(cs), id)

(***************************************************************************)
(* Loading.  A persisted element is a record written by toJSON, a record   *)
(* of another type, or JSON null.                                          *)
(***************************************************************************)
JsonNull == [null |-> TRUE]

\* A variant of fromJSON that does not call _restoreFromJSON: the entry
\* keeps the id and the date its constructor made at clock reading t.
fromJSONRegenerates(obj, t) ==
    IF obj.type = "route"
    THEN Route(obj.coords, obj.distance, obj.title, obj.duration, obj.notes, t)
    ELSE Spot(obj.coords, obj.title, obj.description, t)

\* Route.fromJSON / Spot.fromJSON with Log._restoreFromJSON, constructed at
\* clock reading t.
fromJSON(obj, t) ==
    LET made == IF obj.type = "route"
                THEN Route(obj.coords, obj.distance, obj.title, obj.duration,
                           obj.notes, t)
                ELSE Spot(obj.coords, obj.title, obj.description, t)
    IN  [made EXCEPT !.id = obj.id, !.date = parseDate(obj.date),
                     !.coords = obj.coords]

\* The callback of logsData.map in #loadFromLocalStorage; "dropped" stands
\* for the null that filter(Boolean) removes.
IsKnownType(obj) == obj.type = "route" \/ obj.type = "spot"

\* #loadFromLocalStorage.  Reading obj.type of a null element throws inside
\* map, and the catch sets #logs to [].
loadFromLocalStorage(data, t) ==
    IF data.kind # "array" THEN <<>>
    ELSE IF \E i \in 1 .. Len(data.items) : data.items[i] = JsonNull THEN <<>>
    ELSE LET kept == SelectSeq(data.items, IsKnownType)
         IN  [i \in 1 .. Len(kept) |-> fromJSON(kept[i], t)]

\* #loadMap's rendering of the loaded entries: each entry's layer is put
\* under its id, in order.
RECURSIVE RenderAll(_, _)
RenderAll(ls, layers) ==
    IF ls = <<>> THEN layers
    ELSE RenderAll(Tail(ls), Put(layers, Head(ls).id, BaseLayer(Head(ls))))

\* A layer that stays on the map after #drawnLayers has let go of it, with
\* the id it was rendered under.
Orphan(id, layer) == [id |-> id, kind |-> layer.kind, style |-> layer.style]

\* The layers left on the map that #drawnLayers no longer holds: one for
\* each entry rendered under an id that a later entry took over.
RECURSIVE Overwritten(_)
Overwritten(ls) ==
    IF ls = <<>> THEN <<>>
    ELSE (IF \E i \in 2 .. Len(ls) : ls[i].id = Head(ls).id
          THEN <<Orphan(Head(ls).id, BaseLayer(Head(ls)))>> ELSE <<>>)
            \o Overwritten(Tail(ls))

CardsOf(ls) == [i \in 1 .. Len(ls) |-> ls[i].id]


(***************************************************************************)
(* Initial states: the App constructor has run (#loadFromLocalStorage) and *)
(* #loadMap has rendered the loaded entries.                               *)
(***************************************************************************)
Fresh ==
    /\ mode = "none"
    /\ isDrawing = FALSE
    /\ routePoints = <<>>
    /\ currentPolyline = NoPolyline
    /\ vertexMarkers = <<>>
    /\ currentDistance = 0
    /\ formOpen = FALSE
    /\ distanceDisplay = ""
    /\ clock = <<0, 0>>
    /\ activeAnimations = EmptyMap
    /\ animationLayers = EmptyMap
    /\ selectedRouteId = NoId
    /\ pendingDeleteId = NoId
    /\ deleteDialogOpen = FALSE
    /\ frames = {}
    /\ nextFrameId = 1
    /\ now = 0
    /\ fx = <<>>

\* Before the constructor: nothing loaded, nothing rendered.
Booting(storage) ==
    /\ Fresh
    /\ localStorage = storage
    /\ logs = <<>>
    /\ cards = <<>>
    /\ drawnLayers = EmptyMap
    /\ orphanLayers = <<>>
    /\ ev = [op |-> "boot", arg |-> NoId]

\* new App() and #loadMap
Construct ==
    /\ ev = [op |-> "boot", arg |-> NoId]
    /\ LET loaded == loadFromLocalStorage(localStorage, clock)
       IN  /\ logs' = loaded
           /\ cards' = CardsOf(loaded)
           /\ drawnLayers' = RenderAll(loaded, EmptyMap)
           /\ orphanLayers' = Overwritten(loaded)
    /\ ev' = [op |-> "start", arg |-> NoId]
    /\ UNCHANGED <<sessVars, localStorage, clock, activeAnimations,
                   animationLayers, selectedRouteId, frames, nextFrameId,
                   dialogVars, now, fx>>

\* After the constructor and #loadMap.
Started(storage) ==
    /\ Fresh
    /\ localStorage = storage
    /\ LET loaded == loadFromLocalStorage(storage, <<0, 0>>)
       IN  /\ logs = loaded
           /\ cards = CardsOf(loaded)
           /\ drawnLayers = RenderAll(loaded, EmptyMap)
           /\ orphanLayers = Overwritten(loaded)
    /\ ev = [op |-> "start", arg |-> NoId]

(***************************************************************************)
(* Events.  Both dialogs are opened with showModal: while one is open the  *)
(* page behind it takes no pointer events, and the form, opened last, lies *)
(* over the delete dialog.  The keydown listener is on the document.       *)
(***************************************************************************)
PageActive == ~formOpen /\ ~deleteDialogOpen

\* What the handler may grow stays within the bounds.
WithinPoints(s) == Len(s.routePoints) <= MaxPoints \/ s.formOpen

\* click on a mode button
SetModeBtn(m) ==
    /\ PageActive
    /\ SetSess(setMode(Sess, m))
    /\ ev' = [op |-> "setMode", arg |-> m]
    /\ fx' = <<>>
    /\ UNCHANGED <<storeVars, clock, animVars, dialogVars, now>>

\* click on the map: Leaflet's click (#handleMapClick) and the container's
\* click listener (#deselectRoute)
MapClick(point) ==
    /\ PageActive
    /\ LET s == handleMapClick(Sess, point)
       IN  WithinPoints(s) /\ SetSess(s)
    /\ SetAnim(deselectRoute(Anim))
    /\ ev' = [op |-> "mapClick", arg |-> point]
    /\ UNCHANGED <<logs, cards, orphanLayers, localStorage, clock,
                   dialogVars, now>>

\* dblclick on the map
DoubleClick ==
    /\ PageActive
    /\ SetSess(handleDoubleClick(Sess))
    /\ ev' = [op |-> "dblclick", arg |-> NoId]
    /\ fx' = <<>>
    /\ UNCHANGED <<storeVars, clock, animVars, dialogVars, now>>

\* keydown Enter
KeyEnter ==
    /\ SetSess(handleKeydown(Sess, "Enter"))
    /\ ev' = [op |-> "Enter", arg |-> NoId]
    /\ fx' = <<>>
    /\ UNCHANGED <<storeVars, clock, animVars, dialogVars, now>>

\* keydown Escape; the browser also closes the topmost modal dialog
KeyEscape ==
    /\ SetSess(handleKeydown(Sess, "Escape"))
    /\ deleteDialogOpen' = IF formOpen THEN deleteDialogOpen ELSE FALSE
    /\ ev' = [op |-> "Escape", arg |-> NoId]
    /\ fx' = <<>>
    /\ UNCHANGED <<storeVars, clock, animVars, pendingDeleteId, now>>

\* click on the form's close or cancel button
FormClose ==
    /\ formOpen
    /\ SetSess(closeForm(Sess))
    /\ ev' = [op |-> "closeForm", arg |-> NoId]
    /\ fx' = <<>>
    /\ UNCHANGED <<storeVars, clock, animVars, dialogVars, now>>

\* A variant of that entry which takes the route's distance from the form's
\* distance field, where it stands rounded to 0.01 km.
NewLogRoundedDistance(titleInput, durationInput, notesInput, t) ==
    LET title == IF trim(titleInput) = "" THEN "Untitled" ELSE trim(titleInput)
        notes == trim(notesInput)
    IN  IF distanceDisplay # "none"
        THEN Route(routePoints, ((currentDistance + 5000) \div 10000) * 10000,
                   title, parseIntOr0(durationInput), notes, t)
        ELSE Spot(routePoints[1], title, notes, t)

\* The entry #handleFormSubmit constructs at clock reading t.
NewLog(titleInput, durationInput, notesInput, t) ==
    LET title == IF trim(titleInput) = "" THEN "Untitled" ELSE trim(titleInput)
        notes == trim(notesInput)
    IN  IF distanceDisplay # "none"
        THEN Route(routePoints, currentDistance, title,
                   parseIntOr0(durationInput), notes, t)
        ELSE Spot(routePoints[1], title, notes, t)

\* submit of the form: #handleFormSubmit
FormSubmit(titleInput, durationInput, notesInput, t) ==
    LET log == NewLog(titleInput, durationInput, notesInput, t)
    IN  /\ formOpen
        /\ NotBefore(t, clock)
        /\ clock' = t
        /\ logs' = Append(logs, log)
        /\ drawnLayers' = Put(drawnLayers, log.id, BaseLayer(log))
        /\ orphanLayers' = IF Has(drawnLayers, log.id)
                           THEN Append(orphanLayers,
                                       Orphan(log.id, drawnLayers[log.id]))
                           ELSE orphanLayers
        /\ cards' = Append(cards, log.id)
        /\ localStorage' = Serialized(Append(logs, log))
        /\ SetSess(closeForm(Sess))
        /\ ev' = [op |-> "submit", arg |-> NoId]
        /\ fx' = <<<<"logs.push", log.id>>, <<"addLayer", "base", log.id>>,
                   <<"setItem">>>>
        /\ UNCHANGED <<activeAnimations, animationLayers, selectedRouteId,
                       frames, nextFrameId, dialogVars, now>>


\* click on a card of the list
CardClick(id) ==
    /\ PageActive
    /\ LET a == handleLogClick(Anim, logs, id)
       IN  a.nextFrameId <= MaxFrameId + 1 /\ SetAnim(a)
    /\ ev' = [op |-> "cardClick", arg |-> id]
    /\ UNCHANGED <<sessVars, logs, cards, orphanLayers, localStorage, clock,
                   dialogVars, now>>

\* mouseenter on a card
CardHover(id) ==
    /\ PageActive
    /\ LET a == handleLogHover(Anim, logs, id)
       IN  a.nextFrameId <= MaxFrameId + 1 /\ SetAnim(a)
    /\ ev' = [op |-> "hover", arg |-> id]
    /\ UNCHANGED <<sessVars, logs, cards, orphanLayers, localStorage, clock,
                   dialogVars, now>>

\* mouseleave on a card
CardLeave(id) ==
    /\ PageActive
    /\ SetAnim(handleLogLeave(Anim, id))
    /\ ev' = [op |-> "leave", arg |-> id]
    /\ UNCHANGED <<sessVars, logs, cards, orphanLayers, localStorage, clock,
                   dialogVars, now>>

\* click on a card's delete button: #handleLogClick calls #deleteLog
DeleteClick(id) ==
    /\ PageActive
    /\ IF FindIndex(logs, id) = 0
       THEN UNCHANGED dialogVars
       ELSE pendingDeleteId' = id /\ deleteDialogOpen' = TRUE
    /\ ev' = [op |-> "deleteLog", arg |-> id]
    /\ fx' = <<>>
    /\ UNCHANGED <<sessVars, storeVars, clock, animVars, now>>

\* click on the dialog's confirm button: #confirmDelete
ConfirmDelete ==
    /\ deleteDialogOpen /\ ~formOpen
    /\ ev' = [op |-> "confirmDelete", arg |-> pendingDeleteId]
    /\ IF pendingDeleteId = NoId
       THEN /\ fx' = <<>>
            /\ UNCHANGED <<storeVars, animVars, dialogVars>>
       ELSE LET logId == pendingDeleteId
                a == Emit(Emit(confirmDeleteLayers(Anim, logId),
                               <<"logs.filter", logId>>),
                          <<"setItem">>)
            IN  /\ SetAnim(a)
                /\ logs' = WithoutId(logs, logId)
                /\ cards' = RemoveFirst(cards, logId)
                /\ localStorage' = Serialized(WithoutId(logs, logId))
                /\ pendingDeleteId' = NoId
                /\ deleteDialogOpen' = FALSE
                /\ UNCHANGED orphanLayers
    /\ UNCHANGED <<sessVars, clock, now>>

\* click on the dialog's cancel button: #cancelDelete
CancelDelete ==
    /\ deleteDialogOpen /\ ~formOpen
    /\ pendingDeleteId' = NoId
    /\ deleteDialogOpen' = FALSE
    /\ ev' = [op |-> "cancelDelete", arg |-> NoId]
    /\ fx' = <<>>
    /\ UNCHANGED <<sessVars, storeVars, clock, animVars, now>>

\* One visual frame, steps or 2 * steps of FrameStep after the last one.
Frame(steps) ==
    /\ frames # {}
    /\ now + steps * FrameStep <= MaxTime
    /\ LET a == RunFrame(Anim, frames, now + steps * FrameStep)
       IN  a.nextFrameId <= MaxFrameId + 1 /\ SetAnim(a)
    /\ now' = now + steps * FrameStep
    /\ ev' = [op |-> "frame", arg |-> now + steps * FrameStep]
    /\ UNCHANGED <<sessVars, logs, cards, orphanLayers, localStorage, clock,
                   dialogVars>>

(***************************************************************************)
(* Spec: the drawing session and the entry form, from an empty store.      *)
(***************************************************************************)
Init == Started(NoData)

Next ==
    \/ \E m \in {"route", "spot"} : SetModeBtn(m)
    \/ \E point \in Coords : MapClick(point)
    \/ DoubleClick
    \/ KeyEnter
    \/ KeyEscape
    \/ FormClose
    \/ \E ti \in TitleInputs, du \in DurationInputs, no \in NotesInputs,
          t \in ClockReadings :
            Len(logs) < MaxLogs /\ FormSubmit(ti, du, no, t)

Spec == Init /\ [][Next]_vars

(***************************************************************************)
(* SpecIds: entries created one after the other in spot mode, the clock    *)
(* reading of each creation being any reading not before the last one.     *)
(***************************************************************************)
NextIds ==
    \/ SetModeBtn("spot")
    \/ \E point \in Coords : MapClick(point)
    \/ FormClose
    \/ \E ti \in TitleInputs, t \in ClockReadings :
            Len(logs) < MaxIdLogs /\ FormSubmit(ti, "", "", t)

SpecIds == Init /\ [][NextIds]_vars

(***************************************************************************)
(* Persisted values.  StoredEntries are records the application wrote: a   *)
(* route under each of the ids 0 and 1, and a spot under the id 0.         *)
(***************************************************************************)
StoredRoute(id) ==
    toJSON(Route(IF id = 0 THEN <<P0, PFar>> ELSE <<PFar, PNear, P0>>,
                 calculateTotalDistance(
                     IF id = 0 THEN <<P0, PFar>> ELSE <<PFar, PNear, P0>>),
                 "Loop", 15 * id, "", <<0, id>>))

StoredSpot(id) == toJSON(Spot(PNear, "Untitled", "", <<1, id>>))

StoredEntries == {StoredRoute(0), StoredRoute(1), StoredSpot(0)}

\* A record of a type the application does not know.
StoredOther == [StoredSpot(1) EXCEPT !.type = "trail"]

ArraysOf(elements, maxLen) ==
    UNION {[1 .. n -> elements] : n \in 0 .. maxLen}

(***************************************************************************)
(* SpecLoad: the start of the application over a persisted array that may  *)
(* hold, beside the application's own records, a record of unknown type    *)
(* and JSON null.                                                          *)
(***************************************************************************)
LoadElements == {StoredRoute(0), StoredSpot(1), StoredOther, JsonNull}

InitLoad ==
    \E items \in ArraysOf(LoadElements, MaxStored) :
        Booting([kind |-> "array", items |-> items])

NextLoad == Construct

SpecLoad == InitLoad /\ [][NextLoad]_vars

(***************************************************************************)
(* SpecAnim: the list, the selection, the delete dialog and the frames,    *)
(* over every store of up to MaxStored of the application's own records.   *)
(***************************************************************************)
InitAnim ==
    \E items \in ArraysOf(StoredEntries, MaxStored) :
        Started([kind |-> "array", items |-> items])

NextAnim ==
    \/ \E i \in 1 .. Len(cards) : CardClick(cards[i])
    \/ \E i \in 1 .. Len(cards) : CardHover(cards[i])
    \/ \E i \in 1 .. Len(cards) : CardLeave(cards[i])
    \/ \E i \in 1 .. Len(cards) : DeleteClick(cards[i])
    \/ ConfirmDelete
    \/ CancelDelete
    \/ MapClick(P0)
    \/ KeyEscape
    \/ \E steps \in 1 .. 2 : Frame(steps)

SpecAnim == InitAnim /\ [][NextAnim]_vars


(***************************************************************************)
(* Claims about the drawing session.                                       *)
(***************************************************************************)

\* C1: in every reachable state of the drawing session #currentDistance
\* equals the sum of the consecutive-pair great-circle distances over
\* #routePoints.
C1_LiveDistanceNeverStale ==
    currentDistance = calculateTotalDistance(routePoints)

\* C2: a map click in route mode, with at least 2 points drawn and the click
\* within 0.05 km of the first point, appends a copy of the first point (not
\* the clicked coordinate), adds the closing segment to the distance and
\* goes straight to the open route form with drawing off; every other click
\* in route mode, in particular every click with fewer than 2 points drawn,
\* appends the clicked coordinate and stays in route mode.
C2_LoopClosing ==
    [][(ev'.op = "mapClick" /\ isDrawing /\ mode = "route") =>
        IF /\ Len(routePoints) >= 2
           /\ haversineDistance(ev'.arg, routePoints[1]) < LoopCloseMm
        THEN /\ routePoints' = Append(routePoints, routePoints[1])
             /\ currentDistance' = currentDistance
                  + haversineDistance(routePoints[Len(routePoints)],
                                      routePoints[1])
             /\ mode' = "none"
             /\ ~isDrawing'
             /\ formOpen'
             /\ distanceDisplay' = "block"
        ELSE /\ routePoints' = Append(routePoints, ev'.arg)
             /\ mode' = "route"
             /\ isDrawing'
             /\ ~formOpen']_vars

\* The spec's example: after (0,0) and (0,0.001), a click at
\* (0.00002,0.00002) has closed the loop on a copy of (0,0).
C2_Witness ==
    /\ ev.op = "mapClick"
    /\ ev.arg = PNear
    /\ routePoints = <<P0, PFar, P0>>
    /\ formOpen
    /\ mode = "none"

C4_FinishNeedsTwoPoints ==
    [][(ev'.op \in {"dblclick", "Enter"} /\ Len(routePoints) < 2) =>
        UNCHANGED sessVars]_vars

\* A double click in route mode with one point drawn.
C4_Witness ==
    /\ ev.op = "dblclick"
    /\ mode = "route"
    /\ isDrawing
    /\ Len(routePoints) = 1
    /\ ~formOpen

(***************************************************************************)
(* Claims about the store.                                                 *)
(***************************************************************************)

\* C5: no two entries of the store have the same id.
C5_IdsUnique ==
    \A i, j \in 1 .. Len(logs) : i # j => logs[i].id # logs[j].id

\* The persisted elements that can be deserialized: objects of a known type.
Deserializable(items) ==
    SelectSeq(items, LAMBDA obj : obj # JsonNull /\ IsKnownType(obj))

\* C6: after the start the store holds exactly the persisted records that
\* can be deserialized, in their order; one bad record never empties it.
C6_LoadFaultIsolated ==
    (ev.op = "start" /\ localStorage.kind = "array") =>
        /\ Len(logs) = Len(Deserializable(localStorage.items))
        /\ \A i \in 1 .. Len(logs) :
              toJSON(logs[i]) = Deserializable(localStorage.items)[i]


(***************************************************************************)
(* Claims about the animation controller.                                  *)
(***************************************************************************)
IsRouteId(id) == \E i \in 1 .. Len(logs) : logs[i].id = id /\ logs[i].type = "route"

FramesOf(fs, id) == {f \in fs : f.logId = id}

Count(calls, call) == Cardinality({i \in 1 .. Len(calls) : calls[i] = call})

\* No callback, handle or overlay of an animation of id in the tables a.
Stopped(a, id) ==
    /\ ~Has(a.activeAnimations, id)
    /\ ~Has(a.animationLayers, id)
    /\ FramesOf(a.frames, id) = {}

\* An animation of id that has just started: one callback registered, which
\* is the one the handle names, in the progress phase with its clock unset,
\* and an overlay that shows nothing yet.
FreshlyStarted(a, id) ==
    /\ Has(a.activeAnimations, id)
    /\ Has(a.animationLayers, id)
    /\ a.animationLayers[id].shown = 0
    /\ ~a.animationLayers[id].dashed
    /\ \E f \in a.frames :
          /\ FramesOf(a.frames, id) = {f}
          /\ f.frameId = a.activeAnimations[id]
          /\ f.anim = a.animationLayers[id].anim
          /\ f.phase = "progress"
          /\ f.startTime = 0

\* C7: a click on the card of a route B while another id A is selected
\* stops A's animation, cancelling its callback exactly once, puts A's base
\* layer back in the default style, leaves B selected and starts B's
\* animation.
C7_SelectionExclusive ==
    [][(/\ ev'.op = "cardClick"
        /\ selectedRouteId # NoId
        /\ ev'.arg # selectedRouteId
        /\ IsRouteId(ev'.arg)) =>
        /\ selectedRouteId' = ev'.arg
        /\ Stopped(Anim', selectedRouteId)
        /\ Has(activeAnimations, selectedRouteId) =>
              Count(fx', <<"cancelAnimationFrame",
                           activeAnimations[selectedRouteId]>>) = 1
        /\ (Has(drawnLayers, selectedRouteId)
              /\ drawnLayers[selectedRouteId].kind = "polyline") =>
              drawnLayers'[selectedRouteId].style = "default"
        /\ FreshlyStarted(Anim', ev'.arg)]_vars

\* The callbacks, handles and overlays of the ids other than id are the
\* same in the tables a and b.
OthersUntouched(a, b, id) ==
    /\ a.frames \ FramesOf(a.frames, id) = b.frames \ FramesOf(b.frames, id)
    /\ \A other \in (DOMAIN a.activeAnimations \cup DOMAIN b.activeAnimations
                     \cup DOMAIN a.animationLayers \cup DOMAIN b.animationLayers)
                    \ {id} :
          /\ Has(a.activeAnimations, other) = Has(b.activeAnimations, other)
          /\ Has(a.activeAnimations, other) =>
                a.activeAnimations[other] = b.activeAnimations[other]
          /\ Has(a.animationLayers, other) = Has(b.animationLayers, other)
          /\ Has(a.animationLayers, other) =>
                a.animationLayers[other] = b.animationLayers[other]

\* C8: hovering or leaving the card of the selected id changes nothing of
\* the animation controller; hovering the card of a route that is not
\* selected starts its animation, leaving it stops the animation, hovering a
\* card that is not a route's starts nothing, and no other id's animation is
\* touched.
C8_HoverSparesSelected ==
    [][/\ (ev'.op \in {"hover", "leave"} /\ ev'.arg = selectedRouteId) =>
              UNCHANGED <<animVars, drawnLayers>>
       /\ (ev'.op = "hover" /\ ev'.arg # selectedRouteId /\ IsRouteId(ev'.arg)) =>
              FreshlyStarted(Anim', ev'.arg)
       /\ (ev'.op = "hover" /\ ev'.arg # selectedRouteId /\ ~IsRouteId(ev'.arg)) =>
              UNCHANGED <<animVars, drawnLayers>>
       /\ (ev'.op = "leave" /\ ev'.arg # selectedRouteId) =>
              Stopped(Anim', ev'.arg)
       /\ ev'.op \in {"hover", "leave"} =>
              /\ selectedRouteId' = selectedRouteId
              /\ OthersUntouched(Anim, Anim', ev'.arg)]_vars

\* The position of the first occurrence of call in calls, 0 if there is none.
IndexOf(calls, call) ==
    IF \E i \in 1 .. Len(calls) : calls[i] = call
    THEN CHOOSE i \in 1 .. Len(calls) :
            calls[i] = call /\ \A j \in 1 .. i - 1 : calls[j] # call
    ELSE 0

Before(calls, first, second) ==
    IndexOf(calls, second) # 0 =>
        (IndexOf(calls, first) # 0 /\ IndexOf(calls, first) < IndexOf(calls, second))

C10_OneFramePerId ==
    \A f, g \in frames :
        /\ f.logId = g.logId => f = g
        /\ Has(activeAnimations, f.logId)
        /\ activeAnimations[f.logId] = f.frameId

\* C10: a hover or a click that starts the animation of an id that is
\* already animating cancels the registered callback and removes the overlay
\* first, and then starts afresh from the progress phase.
C10_RestartStopsFirst ==
    [][(/\ ev'.op \in {"hover", "cardClick"}
        /\ Has(activeAnimations, ev'.arg)
        /\ IndexOf(fx', <<"requestAnimationFrame", ev'.arg>>) # 0) =>
        /\ Count(fx', <<"cancelAnimationFrame", activeAnimations[ev'.arg]>>) = 1
        /\ Count(fx', <<"requestAnimationFrame", ev'.arg>>) = 1
        /\ Before(fx', <<"cancelAnimationFrame", activeAnimations[ev'.arg]>>,
                  <<"requestAnimationFrame", ev'.arg>>)
        /\ Before(fx', <<"removeLayer", "overlay", ev'.arg>>,
                  <<"addLayer", "overlay", ev'.arg>>)
        /\ FramesOf(frames, ev'.arg) \cap frames' = {}
        /\ FreshlyStarted(Anim', ev'.arg)]_vars

\* C10: under every interleaving of clicks, hovers, leaves, deletions and
\* frames, at most one callback is registered per id, and starting the
\* animation of an id that is already animating stops it first and starts
\* afresh from the progress phase.
C10_SingleCallback == []C10_OneFramePerId /\ C10_RestartStopsFirst

C10_RestartWitness ==
    /\ ev = [op |-> "cardClick", arg |-> 1]
    /\ selectedRouteId = 1
    /\ \E frameId \in 2 .. MaxFrameId :
          fx = << <<"selectedRouteId", 1>>, <<"cancelAnimationFrame", frameId>>,
                  <<"removeLayer", "overlay", 1>>, <<"setStyle", 1, "animating">>,
                  <<"addLayer", "overlay", 1>>, <<"requestAnimationFrame", 1>> >>
    /\ FreshlyStarted(Anim, 1)

(***************************************************************************)
(* Claims about cancellation, phases and styles.                           *)
(***************************************************************************)

\* Every registered callback belongs to the animation that is current for
\* its id: the overlay on the map is the one its closure draws on, and the
\* handle of the id names it.
C11_PendingAreCurrent ==
    \A f \in frames :
        /\ Has(animationLayers, f.logId)
        /\ animationLayers[f.logId].anim = f.anim
        /\ Has(activeAnimations, f.logId)
        /\ activeAnimations[f.logId] = f.frameId

\* In a frame no callback draws on a removed overlay, and an id without a
\* registered callback keeps its overlay and its handle as they were.
C11_FrameSparesStopped ==
    [][ev'.op = "frame" =>
        /\ \A i \in 1 .. Len(fx') : fx'[i][1] # "drawRemoved"
        /\ \A id \in DOMAIN animationLayers \cup DOMAIN animationLayers'
                     \cup DOMAIN activeAnimations \cup DOMAIN activeAnimations' :
              FramesOf(frames, id) = {} =>
                 /\ FramesOf(frames', id) = {}
                 /\ Has(animationLayers', id) = Has(animationLayers, id)
                 /\ Has(animationLayers, id) =>
                       animationLayers'[id] = animationLayers[id]
                 /\ Has(activeAnimations', id) = Has(activeAnimations, id)
                 /\ Has(activeAnimations, id) =>
                       activeAnimations'[id] = activeAnimations[id]]_vars

\* C11: once #stopRouteAnimation has returned, no callback of the stopped
\* animation is registered any more, so that no later frame runs one or
\* lets one change an overlay or the handle map, also when a new animation
\* of the same id was started right after the stop.
C11_CancellationSynchronous == []C11_PendingAreCurrent /\ C11_FrameSparesStopped

\* A frame has run the callback of the second animation of the only entry.
C11_Witness ==
    /\ ev.op = "frame"
    /\ Len(logs) = 1
    /\ \E f \in frames :
          /\ f.anim >= 2
          /\ f.startTime # 0
          /\ animationLayers[f.logId].anim = f.anim
          /\ animationLayers[f.logId].shown > 0

\* The callback of frames that carries on the animation numbered anim.
Earlier(anim) == CHOOSE f \in frames : f.anim = anim

\* C12: an animation starts in the progress phase with its clock unset and
\* an empty overlay; a frame moves it to the stripes exactly when the time
\* elapsed since its first frame has reached the duration (progress 1), and
\* then every coordinate is shown, the overlay is dashed and the clock is
\* reset to the frame's timestamp; before that it stays in progress; once in
\* the stripes it stays there, fully shown, with its clock untouched.
C12_PhasesSequential ==
    [][\A g \in frames' :
        IF \E f \in frames : f.anim = g.anim
        THEN \/ g = Earlier(g.anim)
             \/ /\ ev'.op = "frame"
                /\ g.logId = Earlier(g.anim).logId
                /\ animationLayers'[g.logId].anim = g.anim
                /\ IF Earlier(g.anim).phase = "stripes"
                   THEN /\ g.phase = "stripes"
                        /\ g.startTime = Earlier(g.anim).startTime
                        /\ animationLayers'[g.logId].shown = g.n
                        /\ animationLayers'[g.logId].dashed
                   ELSE IF /\ Earlier(g.anim).startTime # 0
                           /\ ev'.arg - Earlier(g.anim).startTime
                                 >= Earlier(g.anim).duration
                   THEN /\ g.phase = "stripes"
                        /\ g.startTime = ev'.arg
                        /\ animationLayers'[g.logId].shown = g.n
                        /\ animationLayers'[g.logId].dashed
                   ELSE /\ g.phase = "progress"
                        /\ g.startTime # 0
                        /\ ~animationLayers'[g.logId].dashed
        ELSE /\ g.phase = "progress"
             /\ g.startTime = 0
             /\ animationLayers'[g.logId].shown = 0
             /\ ~animationLayers'[g.logId].dashed]_vars

\* A frame has just moved an animation from progress to the stripes.
C12_Witness ==
    /\ ev.op = "frame"
    /\ \E f \in frames :
          /\ f.phase = "stripes"
          /\ f.startTime = now
          /\ animationLayers[f.logId].shown = f.n
          /\ animationLayers[f.logId].dashed

(***************************************************************************)
(* SpecOver: a route is drawn and submitted, at any clock reading, while   *)
(* the cards of a store holding one route are hovered, clicked and left,   *)
(* all between two frames.                                                 *)
(***************************************************************************)
InitOver == Started([kind |-> "array", items |-> <<StoredRoute(0)>>])

NextOver ==
    \/ SetModeBtn("route")
    \/ \E point \in {P0, PFar} : MapClick(point)
    \/ KeyEnter
    \/ \E t \in ClockReadings :
            Len(logs) < MaxIdLogs /\ FormSubmit(" Loop ", "15", "", t)
    \/ \E i \in 1 .. Len(cards) : CardClick(cards[i])
    \/ \E i \in 1 .. Len(cards) : CardHover(cards[i])
    \/ \E i \in 1 .. Len(cards) : CardLeave(cards[i])

SpecOver == InitOver /\ [][NextOver]_vars

\* The animation of id is running: its callback is registered under its
\* handle and its overlay is on the map.
Running(id) ==
    /\ Has(activeAnimations, id)
    /\ Has(animationLayers, id)
    /\ \E f \in frames : f.logId = id /\ f.frameId = activeAnimations[id]

\* The base layers on the map, each with the id it was rendered under.
BaseLayersOnMap ==
    {Orphan(id, drawnLayers[id]) : id \in DOMAIN drawnLayers}
        \cup {orphanLayers[i] : i \in 1 .. Len(orphanLayers)}

\* C13: in every state the base polyline of an id whose animation is not
\* running is in the default style, and a base polyline in the animating
\* style belongs to an id whose animation is running.
C13_StoppedLooksDefault ==
    \A layer \in BaseLayersOnMap :
        layer.kind = "polyline" =>
            /\ ~Running(layer.id) => layer.style = "default"
            /\ layer.style = "animating" => Running(layer.id)

(***************************************************************************)
(* SpecStore: routes and spots are drawn and submitted at any clock        *)
(* reading, and entries are deleted through the dialog, from an empty      *)
(* store, as long as at most MaxOrphans layers were left behind on the map.*)
(***************************************************************************)
NextStore ==
    \/ \E m \in {"route", "spot"} : SetModeBtn(m)
    \/ \E point \in {P0, PFar} : MapClick(point)
    \/ KeyEnter
    \/ \E t \in ClockReadings :
            /\ Len(logs) < MaxIdLogs
            /\ Len(orphanLayers) + (IF Has(drawnLayers, Last10(t)) THEN 1 ELSE 0)
                  <= MaxOrphans
            /\ FormSubmit(" Loop ", "15", "", t)
    \/ \E i \in 1 .. Len(cards) : DeleteClick(cards[i])
    \/ ConfirmDelete
    \/ CancelDelete

SpecStore == Init /\ [][NextStore]_vars

\* C14: after a form submit and after a confirmed delete the persisted
\* value is the array of the serializations of the entries now in #logs, in
\* their order; cancelling a delete leaves the persisted value as it was.
C14_SavedAfterAddAndDelete ==
    [][/\ (\/ ev'.op = "submit"
           \/ ev'.op = "confirmDelete" /\ ev'.arg # NoId) =>
              /\ localStorage'.kind = "array"
              /\ Len(localStorage'.items) = Len(logs')
              /\ \A i \in 1 .. Len(logs') :
                    localStorage'.items[i] = toJSON(logs'[i])
       /\ ev'.op = "cancelDelete" => localStorage' = localStorage]_vars

\* The first of two stored entries has just been deleted and the value
\* persisted holds the other one.
C14_Witness ==
    /\ ev.op = "confirmDelete"
    /\ Len(logs) = 1
    /\ Len(orphanLayers) = 0
    /\ logs[1].date # <<0, 0>>
    /\ localStorage.items = <<toJSON(logs[1])>>

(***************************************************************************)
(* Claims about entries.                                                   *)
(***************************************************************************)

\* C15: for every stored entry e and every clock reading at which it is
\* deserialized, fromJSON(toJSON(e)) is e again: same type, id, date,
\* coordinates and variant fields, the pace of a route included.
C15_RoundTrip ==
    \A i \in 1 .. Len(logs) : \A t \in ClockReadings :
        fromJSON(toJSON(logs[i]), t) = logs[i]

\* A route with a pace, created at a clock reading other than the first.
C15_Witness ==
    /\ Len(logs) = 1
    /\ logs[1].type = "route"
    /\ logs[1].pace > 0
    /\ logs[1].date = <<1, 1>>
    /\ logs[1].title = "Loop"

(***************************************************************************)
(* SpecPace: one route is drawn, with segments of any length including 0,  *)
(* and submitted with any duration the field takes.                        *)
(***************************************************************************)
NextPace ==
    \/ SetModeBtn("route")
    \/ \E point \in Coords : MapClick(point)
    \/ DoubleClick
    \/ KeyEnter
    \/ KeyEscape
    \/ FormClose
    \/ \E du \in SignedDurationInputs :
            Len(logs) < MaxLogs /\ FormSubmit("", du, "", clock)

SpecPace == Init /\ [][NextPace]_vars

\* C16: the pace of every route is its duration divided by its distance,
\* in whole minutes per kilometre, when both are above 0, and 0 otherwise.
C16_PaceOrSentinel ==
    \A i \in 1 .. Len(logs) :
        logs[i].type = "route" =>
            logs[i].pace =
                IF logs[i].distance > 0 /\ logs[i].duration > 0
                THEN (logs[i].duration * 1000000) \div logs[i].distance
                ELSE 0

\* C17: a route added by a form submit has the session's points and
\* distance as they stand at the submit, at least 2 points, and a distance
\* that is the cumulative length of exactly those points; and from the
\* opening of the form to the submit the session's points and distance do
\* not change, so that they are the ones frozen at the finish.
C17_RouteFrozenAtFinish ==
    [][/\ (ev'.op = "submit" /\ logs'[Len(logs')].type = "route") =>
              /\ logs' = Append(logs, logs'[Len(logs')])
              /\ logs'[Len(logs')].coords = routePoints
              /\ logs'[Len(logs')].distance = currentDistance
              /\ Len(logs'[Len(logs')].coords) >= 2
              /\ logs'[Len(logs')].distance =
                    calculateTotalDistance(logs'[Len(logs')].coords)
       /\ (formOpen /\ formOpen') =>
              UNCHANGED <<routePoints, currentDistance, distanceDisplay>>]_vars

\* A loop closed by a click was submitted: the stored route has the three
\* points and their length.
C17_Witness ==
    /\ ev.op = "submit"
    /\ Len(logs) = 1
    /\ logs[1].type = "route"
    /\ logs[1].coords = <<P0, PFar, P0>>
    /\ logs[1].distance = 2 * haversineDistance(P0, PFar)
    /\ routePoints = <<>>

(***************************************************************************)
(* SpecDraw: the drawing session alone, with routes of up to               *)
(* MaxDrawPoints clicked points; every form is closed without a submit.    *)
(***************************************************************************)
\* click on the map, as MapClick, for the longer routes of SpecDraw
DrawClick(point) ==
    /\ PageActive
    /\ LET s == handleMapClick(Sess, point)
       IN  /\ Len(s.routePoints) <= MaxDrawPoints \/ s.formOpen
           /\ SetSess(s)
    /\ SetAnim(deselectRoute(Anim))
    /\ ev' = [op |-> "mapClick", arg |-> point]
    /\ UNCHANGED <<logs, cards, orphanLayers, localStorage, clock,
                   dialogVars, now>>

NextDraw ==
    \/ \E m \in {"route", "spot"} : SetModeBtn(m)
    \/ \E point \in Coords : DrawClick(point)
    \/ DoubleClick
    \/ KeyEnter
    \/ KeyEscape
    \/ FormClose

SpecDraw == Init /\ [][NextDraw]_vars

(***************************************************************************)
(* Claims about drawing.                                                   *)
(***************************************************************************)

\* The length of a path: 0 for no point or one, otherwise the length of the
\* path without its last point plus the distance over the last pair.
RECURSIVE PathLength(_)
PathLength(points) ==
    IF Len(points) < 2 THEN 0
    ELSE PathLength(SubSeq(points, 1, Len(points) - 1))
            + haversineDistance(points[Len(points) - 1], points[Len(points)])

\* The click at point closes the loop instead of adding the point.
ClosesLoop(point) ==
    /\ Len(routePoints) >= 2
    /\ haversineDistance(point, routePoints[1]) < LoopCloseMm

\* While a route is being drawn the distance is the length of the points.
C18_DrawnDistanceIsLength ==
    (mode = "route" /\ isDrawing) => currentDistance = PathLength(routePoints)

\* A click that adds a point leaves the distance at the length, computed
\* from scratch, of the points accumulated so far.
C18_AddPointAccumulates ==
    [][(/\ ev'.op = "mapClick"
        /\ mode = "route" /\ isDrawing /\ ~formOpen
        /\ ~ClosesLoop(ev'.arg)) =>
        /\ routePoints' = Append(routePoints, ev'.arg)
        /\ currentDistance' = PathLength(routePoints')
        /\ currentDistance' = currentDistance
              + (IF routePoints = <<>> THEN 0
                 ELSE haversineDistance(routePoints[Len(routePoints)],
                                        ev'.arg))]_vars

\* C18: for every sequence of added points of a route-drawing session the
\* distance after each addition is the length of the points so far,
\* recomputed from scratch (0 for 0 or 1 points).
C18_IncrementalEqualsScratch ==
    []C18_DrawnDistanceIsLength /\ C18_AddPointAccumulates

\* A fourth point was added and the distance is the sum of three segments.
C18_Witness ==
    /\ ev = [op |-> "mapClick", arg |-> P0]
    /\ mode = "route"
    /\ routePoints = <<PFar, P0, PNear, P0>>
    /\ currentDistance = haversineDistance(PFar, P0)
                            + 2 * haversineDistance(P0, PNear)
    /\ haversineDistance(P0, PNear) > 0

\* The click at point repeats the last point of the route being drawn.
DuplicateClick(point) ==
    /\ mode = "route" /\ isDrawing /\ ~formOpen
    /\ routePoints # <<>>
    /\ point = routePoints[Len(routePoints)]

\* C19 as stated: in every session state a click at the coordinate of the
\* previous point is appended as a new vertex and adds 0 to the distance.
C19_DuplicateAlwaysKept ==
    [][(ev'.op = "mapClick" /\ DuplicateClick(ev'.arg)) =>
        /\ routePoints' = Append(routePoints, ev'.arg)
        /\ currentDistance' = currentDistance]_vars

\* C19: a click at the coordinate of the previous point is appended as a
\* new vertex and adds 0 to the distance, unless the route has two points
\* or more and the click is within 50 m of the first one: then a copy of
\* the first point is appended instead, the distance grows by the way back
\* to that point, and the route is finished.
C19_DuplicateKeptUnlessLoopCloses ==
    [][(ev'.op = "mapClick" /\ DuplicateClick(ev'.arg)) =>
        IF ClosesLoop(ev'.arg)
        THEN /\ routePoints' = Append(routePoints, routePoints[1])
             /\ currentDistance' = currentDistance
                   + haversineDistance(ev'.arg, routePoints[1])
             /\ formOpen'
        ELSE /\ routePoints' = Append(routePoints, ev'.arg)
             /\ currentDistance' = currentDistance
             /\ mode' = "route" /\ isDrawing' /\ ~formOpen']_vars

\* The second of three points was clicked twice and stands twice.
C19_Witness ==
    /\ ev = [op |-> "mapClick", arg |-> PFar]
    /\ mode = "route" /\ isDrawing
    /\ routePoints = <<P0, PFar, PFar>>
    /\ currentDistance = haversineDistance(P0, PFar)
    /\ currentDistance > 0

\* A session is active: a mode is being drawn in, or a finished route or
\* a spot waits in the open form.
SessionActive == isDrawing \/ formOpen

\* The Escape key ends an active session with no mode, no points, no
\* polyline, no markers, no form and distance 0, and changes nothing of a
\* session that is not active.
C20_CancelStep ==
    [][ev'.op = "Escape" =>
        IF SessionActive
        THEN /\ mode' = "none" /\ ~isDrawing' /\ ~formOpen'
             /\ routePoints' = <<>>
             /\ currentDistance' = 0
             /\ currentPolyline' = NoPolyline
             /\ vertexMarkers' = <<>>
        ELSE UNCHANGED sessVars]_vars

\* A second Escape key leaves the session as the first one left it.
C20_CancelTwice ==
    handleKeydown(handleKeydown(Sess, "Escape"), "Escape")
        = handleKeydown(Sess, "Escape")

\* C20: cancel from any active drawing state, in route or spot mode and
\* with any number of points, ends the session with mode idle, points empty
\* and distance 0; a second cancel, or a cancel when nothing is active,
\* changes nothing.
C20_CancelClearsAndIsIdempotent ==
    C20_CancelStep /\ []C20_CancelTwice /\ [](ev.op = "Escape" => ~SessionActive)

\* The Escape key has ended a session: nothing is left of it.
C20_Witness ==
    /\ ev.op = "Escape"
    /\ mode = "none" /\ ~isDrawing /\ ~formOpen
    /\ routePoints = <<>>
    /\ currentDistance = 0
    /\ distanceDisplay = "block"

(***************************************************************************)
(* Claims about the stored entries.                                        *)
(***************************************************************************)

\* A coordinate pair: [lat, lng].
IsPair(c) == c \in Coords

\* C21: every route in the store that came from the drawing session has at
\* least 2 coordinate pairs, and every spot has exactly one coordinate
\* pair, whatever mode switches, clicks, finishes and submits came before.
C21_RouteTwoSpotOne ==
    \A i \in 1 .. Len(logs) :
        IF logs[i].type = "route"
        THEN /\ Len(logs[i].coords) >= 2
             /\ \A j \in 1 .. Len(logs[i].coords) : IsPair(logs[i].coords[j])
        ELSE /\ logs[i].type = "spot"
             /\ IsPair(logs[i].coords)

\* A closed loop of three points and a spot stand in the store.
C21_Witness ==
    /\ ev.op = "submit"
    /\ Len(logs) = 2
    /\ logs[1].type = "route" /\ logs[1].coords = <<P0, PFar, P0>>
    /\ logs[2].type = "spot" /\ logs[2].coords = PFar

(***************************************************************************)
(* SpecKeep: the whole application over a store that holds one route,      *)
(* persisted with a distance of 0.1 km, which is not the length of its     *)
(* coordinates (the load takes the distance field as it stands).  Entries *)
(* are added in the clock's last era only, so one entry is added.          *)
(***************************************************************************)
StoredRouteOffLength == [StoredRoute(1) EXCEPT !.distance = 100000]

InitKeep == Started([kind |-> "array", items |-> <<StoredRouteOffLength>>])

NextKeep ==
    \/ SetModeBtn("route")
    \/ \E point \in {P0, PFar} : MapClick(point)
    \/ KeyEnter
    \/ \E ms \in 0 .. MaxMs :
            /\ clock[1] < MaxEra
            /\ FormSubmit(" Loop ", "15", "", <<MaxEra, ms>>)
    \/ \E i \in 1 .. Len(cards) : CardClick(cards[i])
    \/ \E i \in 1 .. Len(cards) : DeleteClick(cards[i])
    \/ ConfirmDelete
    \/ CancelDelete
    \/ Frame(1)

SpecKeep == InitKeep /\ [][NextKeep]_vars

\* The id whose entries the step deletes, if it deletes any.
DeletedId(e) == IF e.op = "confirmDelete" THEN e.arg ELSE NoId

\* Where entry i of the store stands after entries with the id gone left.
PlaceAfter(ls, i, gone) ==
    i - Cardinality({k \in 1 .. i : ls[k].id = gone})

\* C22: an entry of the store stays as it is, in id, date, coordinates,
\* title, distance, duration, notes or description, and pace, through
\* every step that does not delete it; a route's distance is not brought
\* up to date with its coordinates, and drawing leaves the coordinates of
\* the entries in the store alone.
C22_EntriesFrozen ==
    [][\A i \in 1 .. Len(logs) :
          logs[i].id # DeletedId(ev') =>
              LET j == PlaceAfter(logs, i, DeletedId(ev'))
              IN  /\ j \in 1 .. Len(logs')
                  /\ logs'[j] = logs[i]]_vars

\* The route persisted with a distance that is not the length of its
\* coordinates has stayed so through a later entry's drawing, that entry's
\* deletion, its own selection and a frame of its animation.
C22_Witness ==
    /\ ev.op = "frame"
    /\ clock[1] = MaxEra
    /\ Len(logs) = 1
    /\ logs[1] = fromJSON(StoredRouteOffLength, <<0, 0>>)
    /\ logs[1].distance # calculateTotalDistance(logs[1].coords)
    /\ selectedRouteId = logs[1].id

\* The store without its entry i.
WithoutEntry(ls, i) == SubSeq(ls, 1, i - 1) \o SubSeq(ls, i + 1, Len(ls))

\* C23: the store changes only through add and confirmed delete.  A form
\* submit appends one entry at the end; a confirmed delete removes exactly
\* one entry, which has the pending id, and keeps the others in their
\* order; every other handler (hover, select, deselect, cancel drawing,
\* request of a delete, cancel of a delete, confirm with no pending id)
\* leaves the stored sequence as it was.
C23_OnlyAddAndDelete ==
    [][IF ev'.op = "submit"
       THEN /\ Len(logs') = Len(logs) + 1
            /\ SubSeq(logs', 1, Len(logs)) = logs
       ELSE IF ev'.op = "confirmDelete" /\ FindIndex(logs, ev'.arg) # 0
       THEN \E i \in 1 .. Len(logs) :
                /\ logs[i].id = ev'.arg
                /\ logs' = WithoutEntry(logs, i)
       ELSE logs' = logs]_vars

(***************************************************************************)
(* SpecEdge: a route is being drawn with one point set, anywhere on the    *)
(* grid above, and the second point is clicked: #addRoutePoint takes the   *)
(* distance of the two, one call of #haversineDistance.                    *)
(***************************************************************************)
InitEdge ==
    \E coord1 \in EdgeCoords :
        /\ mode = "route"
        /\ isDrawing = TRUE
        /\ routePoints = <<coord1>>
        /\ currentPolyline = NoPolyline
        /\ vertexMarkers = <<coord1>>
        /\ currentDistance = 0
        /\ formOpen = FALSE
        /\ distanceDisplay = ""
        /\ logs = <<>>
        /\ cards = <<>>
        /\ drawnLayers = EmptyMap
        /\ orphanLayers = <<>>
        /\ localStorage = NoData
        /\ clock = <<0, 0>>
        /\ activeAnimations = EmptyMap
        /\ animationLayers = EmptyMap
        /\ selectedRouteId = NoId
        /\ pendingDeleteId = NoId
        /\ deleteDialogOpen = FALSE
        /\ frames = {}
        /\ nextFrameId = 1
        /\ now = 0
        /\ ev = [op |-> "mapClick", arg |-> coord1]
        /\ fx = <<>>

\* click on the map at the second point
EdgeClick(coord2, err) ==
    /\ PageActive
    /\ isDrawing /\ mode = "route"
    /\ Len(routePoints) = 1
    /\ err \in RoundingErrors(routePoints[1], coord2)
    /\ routePoints' = Append(routePoints, coord2)
    /\ vertexMarkers' = Append(vertexMarkers, coord2)
    /\ currentPolyline' = Append(routePoints, coord2)
    /\ currentDistance' = haversineDistanceEdge(routePoints[1], coord2, err)
    /\ ev' = [op |-> "edgeClick", arg |-> coord2]
    /\ fx' = <<>>
    /\ UNCHANGED <<mode, isDrawing, formOpen, distanceDisplay, storeVars,
                   clock, animVars, dialogVars, now>>

NextEdge == \E coord2 \in EdgeCoords, err \in {-1, 0, 1} : EdgeClick(coord2, err)

SpecEdge == InitEdge /\ [][NextEdge]_vars

\* C24: the distance of every pair of valid coordinates is defined (not
\* NaN), for near-antipodal and coincident points as well, the haversine
\* intermediate a being kept within [0, 1] before the square roots; and
\* the distance of identical points is 0.
C24_DistanceDefined ==
    ev.op = "edgeClick" =>
        /\ currentDistance # NaN
        /\ routePoints[1] = routePoints[2] => currentDistance = 0

(***************************************************************************)
(* SpecLive: the list and the frames over a store of two routes, one of    *)
(* them between the antipodal points (8, 0) and (-8, 180); a frame comes   *)
(* as long as a callback is pending.                                       *)
(***************************************************************************)
StoredRouteAntipodal ==
    [StoredRoute(1) EXCEPT
        !.coords = <<<<8 * MicroPerDegree, 0>>,
                     <<-8 * MicroPerDegree, 180 * MicroPerDegree>>>>]

InitLive ==
    Started([kind |-> "array",
             items |-> <<StoredRoute(0), StoredRouteAntipodal>>])

NextLive ==
    \/ \E i \in 1 .. Len(cards) : CardClick(cards[i])
    \/ \E i \in 1 .. Len(cards) : CardHover(cards[i])
    \/ \E i \in 1 .. Len(cards) : CardLeave(cards[i])
    \/ MapClick(P0)
    \/ \E steps \in 1 .. 2 : Frame(steps)

SpecLive ==
    InitLive /\ [][NextLive]_vars /\ WF_vars(\E steps \in 1 .. 2 : Frame(steps))

\* The callback pending for the id is in the phase.
InPhase(id, phase) == \E f \in frames : f.logId = id /\ f.phase = phase

\* No further frame comes within the bounds of the model.
Capped ==
    \A steps \in 1 .. 2 :
        \/ now + steps * FrameStep > MaxTime
        \/ RunFrame(Anim, frames, now + steps * FrameStep).nextFrameId
              > MaxFrameId + 1

\* The last frame came when the progress phase of the id had lasted its
\* duration.
Overdue(id) ==
    \E f \in frames :
        /\ f.logId = id /\ f.phase = "progress"
        /\ f.startTime # 0
        /\ f.duration # NaN
        /\ now - f.startTime >= f.duration

\* The progress phase of every pending callback has a duration, between
\* 500 and 2000 ms: a time after which a frame ends the phase.
C25_DurationDefined ==
    \A f \in frames :
        f.duration # NaN /\ f.duration \in MinDurationMs .. MaxDurationMs

\* An animation in its progress phase comes to its stripes phase, unless it
\* is stopped or the frames end before its duration has passed.
C25_ProgressLeadsToStripes ==
    \A id \in {0, 1} :
        InPhase(id, "progress") ~>
            (\/ InPhase(id, "stripes")
             \/ ~Has(activeAnimations, id)
             \/ Capped /\ ~Overdue(id))

\* A frame leaves an animation of the stripes phase pending, in that phase.
C25_StripesGoOn ==
    [][ev'.op = "frame" =>
        \A f \in frames :
            f.phase = "stripes" =>
                \E g \in frames' :
                    /\ g.logId = f.logId /\ g.anim = f.anim
                    /\ g.phase = "stripes"]_vars

\* C25: an animation that was started and is not stopped, frames coming
\* at advancing times with any delays between them, leaves the progress
\* phase for the stripes phase, and from then on every frame leaves it
\* scheduled again in the stripes phase.
C25_AnimationProgresses ==
    /\ []C25_DurationDefined
    /\ C25_ProgressLeadsToStripes
    /\ C25_StripesGoOn


(***************************************************************************)
(* Claims about the session as a whole.                                    *)
(***************************************************************************)
\* The entry #handleLogClick finds for the clicked card is a spot.
ClickedSpot(ls, id) == FindIndex(ls, id) # 0 /\ ls[FindIndex(ls, id)].type = "spot"

\* The selection is empty or names a route of the store.
C26_SelectionInStore == selectedRouteId = NoId \/ IsRouteId(selectedRouteId)

\* A click on the card of a spot empties the selection and stops the
\* animation of the route that was selected.
C26_SpotClickClears ==
    [][(ev'.op = "cardClick" /\ ClickedSpot(logs, ev'.arg)) =>
        /\ selectedRouteId' = NoId
        /\ selectedRouteId # NoId => Stopped(Anim', selectedRouteId)]_vars

CallbackIds == {f.logId : f \in frames}

\* The side tables agree: the ids with a handle, the ids with a registered
\* callback and the ids with an overlay are the same, each of them has one
\* callback, the one its handle names, drawing on the overlay of its table
\* entry, and each of them is the id of a route of the store.
C27_TablesAgree ==
    /\ DOMAIN activeAnimations = CallbackIds
    /\ DOMAIN animationLayers = CallbackIds
    /\ \A id \in CallbackIds :
          /\ Cardinality(FramesOf(frames, id)) = 1
          /\ \A f \in FramesOf(frames, id) :
                /\ f.frameId = activeAnimations[id]
                /\ f.anim = animationLayers[id].anim
          /\ IsRouteId(id)

\* The overlays of id a handler puts on the map, less those it removes.
OverlaysAdded(calls, id) ==
    Count(calls, <<"addLayer", "overlay", id>>)
        - Count(calls, <<"removeLayer", "overlay", id>>)

\* 1 when id has an entry in the table of overlays, 0 otherwise.
InTable(layers, id) == IF Has(layers, id) THEN 1 ELSE 0

\* Every handler changes the number of overlays of an id on the map by what
\* it changes the table of overlays, so that an id of the table has one
\* overlay on the map and any other id has none.
C27_OneOverlayEach ==
    [][\A id \in DOMAIN animationLayers \cup DOMAIN animationLayers' :
          OverlaysAdded(fx', id)
              = InTable(animationLayers', id) - InTable(animationLayers, id)]_vars

\* C27: between handlers the ids with a registered frame callback are the
\* ids with an animation overlay, each such id has exactly one overlay on
\* the map, and each such id is the id of a route of the store.
C27_SideTablesNeverLeak ==
    /\ []C27_TablesAgree
    /\ C27_OneOverlayEach

\* Two routes are animated at once, one selected and one hovered, after a
\* frame has run their callbacks.
C27_Witness ==
    /\ ev.op = "frame"
    /\ Cardinality(CallbackIds) = 2
    /\ selectedRouteId \in CallbackIds
    /\ Count(fx, <<"requestAnimationFrame", selectedRouteId>>) = 1

\* No mode is set, nothing is being drawn and the entry form is closed.
Idle == mode = "none" /\ ~isDrawing /\ ~formOpen

\* C28: whenever the session is idle (mode none, drawing flag off) and the
\* entry form is closed, #routePoints is empty and #currentDistance is 0;
\* and the drawing flag is on exactly when the mode is not none.
C28_IdleSessionIsEmpty ==
    /\ Idle => (routePoints = <<>> /\ currentDistance = 0)
    /\ isDrawing <=> mode # "none"

\* The session is idle again after the form of a drawn route of a length
\* above 0 was submitted.
C28_Witness ==
    /\ ev.op = "submit"
    /\ Idle
    /\ logs # <<>>
    /\ logs[Len(logs)].type = "route"
    /\ logs[Len(logs)].distance > 0

=============================================================================
